---------------------------- MODULE Spec2Model ----------------------------
(***************************************************************************)
(* A model of the retrieval engine of slide-scraper: CourseQASystem of     *)
(* src/course_qa_system.py.  The state is the object's two fields          *)
(* (content_database, content_embeddings) and the two pickle files it      *)
(* keeps in qa_system_data/.  The operations are the object's methods, a   *)
(* new process constructing a new object, and the loss of either file.     *)
(* The corpus (the chunks the text files of output/ split into at the time *)
(* of the call) is an input of extract_text_from_files.                    *)
(*                                                                         *)
(* Spec is the life of the store (sessions, ingestion, builds, files);     *)
(* SpecSearch applies search_relevant_content to every store of the        *)
(* bounded sizes, which are the stores Spec reaches.                       *)
(* SpecBatch builds databases of more than one batch; SpecSession is the   *)
(* loop of interactive_qa; SpecChunk applies split_into_slides to every    *)
(* text of a few pieces; SpecIngest is extract_text_from_files on the      *)
(* lecture files and the midterm guide; SpecStudy is the object of         *)
(* src/conversational_study_system.py, SpecKeyword its retrieval on        *)
(* databases of several lectures, SpecTurn its loop statement by           *)
(* statement; SpecDisk is both systems reading one directory, SpecAnswer   *)
(* both answer_question methods with a generation model that may fail.     *)
(*                                                                         *)
(* The embedding provider (SentenceTransformer.encode) is a fixed table    *)
(* from texts to integer vectors; cosine similarity is computed exactly,   *)
(* as the signed square of the cosine, a fraction num/den.                 *)
(***************************************************************************)
EXTENDS Integers, Sequences, FiniteSets, TLC

VARIABLES
    content_database,    \* self.content_database: sequence of chunk records
    content_embeddings,  \* self.content_embeddings: [set, vecs]; set = FALSE is None
    embeddings_file,     \* qa_system_data/content_embeddings.pkl: [state, data]
    content_file,        \* qa_system_data/content_database.pkl: [state, data]
    op,                  \* the operation that ran last
    outcome,             \* how it ended
    raised,              \* whether it ended by raising an exception to its caller
    streak,              \* build_embeddings calls that returned, in a row (at most 2)
    snapshot_count,      \* the chunk count of the persisted snapshot the last
                         \* build_embeddings call found (-1: no file; -2: one
                         \* file only, or a file that cannot be loaded)
    encoded,             \* the texts it passed to the provider, one sequence per call
    query,               \* the query of the last search
    top_k,               \* the top_k of the last search
    picked,              \* the indices (1-based) of the results of the last search
    results,             \* the list the last search returned
    session,             \* interactive_qa: "none", "running" or "ended"
    answer,              \* the dict the last answer_question returned
    file_text,           \* the text last given to split_into_slides
    slides,              \* the list split_into_slides returned for it
    lecture_files,       \* output/*_slides_text.txt, in the order glob gives them
    midterm_json,        \* midterm_guide/midterm_study_content.json
    conversation_history,  \* ConversationalStudySystem.conversation_history
    lecture_texts,       \* ConversationalStudySystem.content_database
    quick_facts,         \* ConversationalStudySystem.quick_facts
    context,             \* what get_conversation_context returned last
    last_n,              \* the last_n it was called with (-1: not called)
    pc,                  \* start_study_session: the step the loop is at
    locals,              \* the locals of the answer_question call in progress
    steps,               \* the steps done for the question in progress
    in_progress          \* questions read and not yet answered

vars == <<content_database, content_embeddings, embeddings_file,
          content_file, op, outcome, raised, streak, snapshot_count,
          encoded, query, top_k, picked, results, session, answer,
          file_text, slides, lecture_files, midterm_json,
          conversation_history, lecture_texts,
          quick_facts, context, last_n, pc, locals, steps, in_progress>>

store == <<content_database, content_embeddings, embeddings_file, content_file>>

session_vars == <<session, answer>>
chunker_vars == <<file_text, slides, lecture_files, midterm_json>>
turn_vars == <<pc, locals, steps, in_progress>>
study_vars ==
    <<conversation_history, lecture_texts, quick_facts, context, last_n,
      turn_vars>>

---------------------------------------------------------------------------
(* Bounds of the model *)

MaxChunks == 2      \* chunks the corpus splits into
MaxDb == 2          \* entries of content_database
MaxTopK == 2        \* top_k of a search
MaxLong == 65       \* slides of a long lecture
MaxPieces == 4      \* pieces of the text of a lecture file
MaxStore == 8       \* entries of content_database after ingestion
MaxTurns == 4       \* entries of conversation_history
MaxLastN == 5       \* last_n of get_conversation_context
MaxLectures == 4    \* lectures of the study system's content_database

(* Constants of the program *)

batch_size == 32
ThresholdNum == 1   \* the threshold 0.1 is ThresholdNum / ThresholdDen
ThresholdDen == 10
AnswerTopK == 5     \* the top_k answer_question searches with
MinLength == 50     \* a part is kept when it is longer than this
ShortWord == 3      \* a word of the query counts when it is longer than this
TopLectures == 3    \* lectures find_relevant_content returns at most
DefaultLastN == 3   \* last_n of get_conversation_context by default
HistoryLastN == 5   \* last_n of show_history by default

---------------------------------------------------------------------------
(* The embedding provider and the similarity measure *)

Texts == {"tfidf", "index"}
Queries == {"what is tfidf", "inverted index"}

\* SentenceTransformer.encode on one text
Encode(t) ==
    CASE t = "tfidf" -> <<1, 0, 0, 0>>
      [] t = "index" -> <<1, 9, 3, 3>>
      [] t = "what is tfidf" -> <<1, 0, 0, 0>>
      [] t = "inverted index" -> <<0, 1, 0, 0>>
      [] OTHER -> <<0, 0, 0, 0>>

\* SentenceTransformer.encode on a list of texts: one vector per text, in order
EncodeAll(ts) == [i \in 1..Len(ts) |-> Encode(ts[i])]

RECURSIVE DotFrom(_, _, _)
DotFrom(a, b, i) ==
    IF i > Len(a) THEN 0 ELSE a[i] * b[i] + DotFrom(a, b, i + 1)

Dot(a, b) == DotFrom(a, b, 1)

\* cosine of the angle of q and e, as the fraction num/den = sign(cos) * cos^2;
\* a zero vector has similarity 0 with everything
cosine_similarity(q, e) ==
    LET d == Dot(q, e)
        n == Dot(q, q) * Dot(e, e)
    IN  IF n = 0 THEN [num |-> 0, den |-> 1]
        ELSE [num |-> IF d < 0 THEN -(d * d) ELSE d * d, den |-> n]

SimLess(s, t) == s.num * t.den < t.num * s.den
SimEq(s, t) == s.num * t.den = t.num * s.den

\* a variant of the threshold test: similarities[idx] >= 0.1
AtOrAboveThreshold(s) ==
    /\ s.num > 0
    /\ s.num * ThresholdDen * ThresholdDen >= ThresholdNum * ThresholdNum * s.den

\* similarities[idx] > 0.1
AboveThreshold(s) ==
    /\ s.num > 0
    /\ s.num * ThresholdDen * ThresholdDen > ThresholdNum * ThresholdNum * s.den

---------------------------------------------------------------------------
(* Values *)

None == [set |-> FALSE, vecs |-> <<>>]
Array(vs) == [set |-> TRUE, vecs |-> vs]

Absent == [state |-> "absent", data |-> <<>>]
Unreadable == [state |-> "unreadable", data |-> <<>>]
Pickled(d) == [state |-> "ok", data |-> d]

Min(a, b) == IF a < b THEN a ELSE b

SeqsUpTo(S, n) == UNION {[1..k -> S] : k \in 0..n}

Corpora == SeqsUpTo(Texts, MaxChunks)

\* the chunk records split_into_slides makes of the lecture's text
Slides(texts) ==
    [i \in 1..Len(texts) |->
        [lecture |-> "lecture1", slide_number |-> i, content |-> texts[i]]]

NoAnswer == [answer |-> "", sources_used |-> 0, has_context |-> FALSE]

\* the parts of the program an operation has nothing to do with
SessionUnused == session = "none" /\ answer = NoAnswer
ChunkerUnused ==
    /\ file_text = <<>>
    /\ slides = <<>>
    /\ lecture_files = <<>>
    /\ midterm_json = [state |-> "absent", consolidated |-> <<>>]
\* no answer_question call is in progress: its locals are unbound
NoLocals ==
    [question |-> <<>>, relevant_content |-> <<>>, prompt |-> <<>>,
     response |-> [raised |-> FALSE, text |-> <<>>]]
TurnUnused ==
    /\ pc = "none"
    /\ locals = NoLocals
    /\ steps = <<>>
    /\ in_progress = 0
StudyUnused ==
    /\ conversation_history = <<>>
    /\ lecture_texts = <<>>
    /\ quick_facts = <<>>
    /\ context = <<>>
    /\ last_n = -1
    /\ TurnUnused

---------------------------------------------------------------------------
(* Operations *)

Init ==
    /\ content_database = <<>>
    /\ content_embeddings = None
    /\ embeddings_file = Absent
    /\ content_file = Absent
    /\ op = "init"
    /\ outcome = "ok"
    /\ raised = FALSE
    /\ streak = 0
    /\ snapshot_count = -1
    /\ encoded = <<>>
    /\ query = ""
    /\ top_k = 0
    /\ picked = <<>>
    /\ results = <<>>
    /\ SessionUnused
    /\ ChunkerUnused
    /\ StudyUnused

NoBuild ==
    /\ streak' = 0
    /\ snapshot_count' = -1

NoSearch ==
    /\ query' = ""
    /\ top_k' = 0
    /\ picked' = <<>>
    /\ results' = <<>>

\* a new process: CourseQASystem()
New ==
    /\ content_database' = <<>>
    /\ content_embeddings' = None
    /\ op' = "init"
    /\ outcome' = "ok"
    /\ raised' = FALSE
    /\ NoBuild
    /\ encoded' = <<>>
    /\ NoSearch
    /\ UNCHANGED <<embeddings_file, content_file>>
    /\ UNCHANGED <<session_vars, chunker_vars, study_vars>>

\* extract_text_from_files(), when the text files split into the chunks c
extract_text_from_files(c) ==
    /\ Len(content_database) + Len(c) <= MaxDb
    /\ content_database' = content_database \o Slides(c)
    /\ op' = "extract"
    /\ outcome' = IF Len(c) > 0 THEN "ok" ELSE "no_content"
    /\ raised' = FALSE
    /\ NoBuild
    /\ encoded' = <<>>
    /\ NoSearch
    /\ UNCHANGED <<content_embeddings, embeddings_file, content_file>>
    /\ UNCHANGED <<session_vars, chunker_vars, study_vars>>

\* range(0, len(texts), batch_size): the number of batches of n texts
NumBatches(n) == (n + batch_size - 1) \div batch_size

\* a variant of the slice, one text short: texts[i:i + batch_size - 1]
BatchShort(texts, b) ==
    SubSeq(texts, (b - 1) * batch_size + 1, Min(b * batch_size, Len(texts)) - 1)

\* texts[i:i + batch_size] of the b-th batch (b = 1, 2, ...)
Batch(texts, b) ==
    SubSeq(texts, (b - 1) * batch_size + 1, Min(b * batch_size, Len(texts)))

\* all_embeddings after the batches b, b + 1, ... have been encoded and appended
RECURSIVE EmbedBatches(_, _)
EmbedBatches(texts, b) ==
    IF b > NumBatches(Len(texts)) THEN <<>>
    ELSE EncodeAll(Batch(texts, b)) \o EmbedBatches(texts, b + 1)

\* a variant of the cache test, inverted: !=
CacheMiss(saved_content, database) == Len(saved_content) # Len(database)

\* a variant of the cache test, "enough chunks are saved": >=
CacheCovers(saved_content, database) == Len(saved_content) >= Len(database)

\* the test of line 154: len(saved_content) == len(self.content_database)
CacheHit(saved_content, database) == Len(saved_content) = Len(database)

\* a variant of the loading in which a damaged file loads as an empty list
LoadsWhenThere(file) == file.state # "absent"

\* pickle.load(f) of the file returns
Loads(file) == file.state = "ok"

WriteFaults == {"none", "embeddings_open", "embeddings_dump",
                "content_open", "content_dump"}

\* build_embeddings().  fail_batch: the batch whose encode call raises (0: none);
\* fault: where writing the two files raises (open: the file is untouched,
\* dump: the file was truncated by open(.., 'wb') and is left unreadable).
build_embeddings(fail_batch, fault) ==
    LET exist == embeddings_file.state # "absent" /\ content_file.state # "absent"
        emb_loaded == exist /\ Loads(embeddings_file)
        db_loaded == emb_loaded /\ Loads(content_file)
        after_load == IF emb_loaded THEN Array(embeddings_file.data)
                      ELSE content_embeddings
        hit == db_loaded /\ CacheHit(content_file.data, content_database)
        texts == [i \in 1..Len(content_database) |-> content_database[i].content]
        nb == NumBatches(Len(texts))
        all_embeddings == EmbedBatches(texts, 1)
    IN  /\ fail_batch \in 0..nb
        /\ hit => fail_batch = 0 /\ fault = "none"
        /\ fail_batch > 0 => fault = "none"
        /\ op' = "build"
        /\ snapshot_count' =
              IF embeddings_file.state = "ok" /\ content_file.state = "ok"
              THEN Len(content_file.data)
              ELSE IF embeddings_file = Absent /\ content_file = Absent
              THEN -1 ELSE -2
        /\ NoSearch
        /\ UNCHANGED content_database
        /\ UNCHANGED <<session_vars, chunker_vars, study_vars>>
        /\ IF hit
           THEN /\ content_embeddings' = after_load
                /\ outcome' = "hit"
                /\ raised' = FALSE
                /\ streak' = Min(streak + 1, 2)
                /\ encoded' = <<>>
                /\ UNCHANGED <<embeddings_file, content_file>>
           ELSE IF fail_batch > 0
           THEN /\ content_embeddings' = after_load
                /\ outcome' = "encode_error"
                /\ raised' = TRUE
                /\ streak' = 0
                /\ encoded' = [b \in 1..fail_batch |-> Batch(texts, b)]
                /\ UNCHANGED <<embeddings_file, content_file>>
           ELSE /\ content_embeddings' = Array(all_embeddings)
                /\ encoded' = [b \in 1..nb |-> Batch(texts, b)]
                /\ outcome' = IF fault = "none" THEN "built" ELSE "write_error"
                /\ raised' = (fault # "none")
                /\ streak' = IF fault = "none" THEN Min(streak + 1, 2) ELSE 0
                /\ embeddings_file' =
                      CASE fault = "embeddings_open" -> embeddings_file
                        [] fault = "embeddings_dump" -> Unreadable
                        [] OTHER -> Pickled(all_embeddings)
                /\ content_file' =
                      CASE fault = "none" -> Pickled(content_database)
                        [] fault = "content_dump" -> Unreadable
                        [] OTHER -> content_file

\* np.argsort(similarities): the orders of the indices in which the values
\* ascend; numpy's default sort is not stable, so equal values come in any order
argsort(sims) ==
    {p \in [1..Len(sims) -> 1..Len(sims)] :
        /\ \A i, j \in 1..Len(sims) : i # j => p[i] # p[j]
        /\ \A i, j \in 1..Len(sims) : i < j => ~SimLess(sims[p[j]], sims[p[i]])}

\* a variant of the selection, from the wrong end: order[:top_k][::-1]
LowestIndices(order, k) ==
    [j \in 1..Min(k, Len(order)) |-> order[Min(k, Len(order)) + 1 - j]]

\* order[-top_k:][::-1]
TopIndices(order, k) ==
    [j \in 1..Min(k, Len(order)) |-> order[Len(order) + 1 - j]]

\* cosine_similarity(query_embedding, self.content_embeddings)[0]
Similarities(q) ==
    [i \in 1..Len(content_embeddings.vecs) |->
        cosine_similarity(Encode(q), content_embeddings.vecs[i])]

\* a variant of the test for missing embeddings that never finds them missing
NeverMissing(embeddings) == FALSE

\* self.content_embeddings is None
NotBuilt(embeddings) == ~embeddings.set

\* the ways search_relevant_content(q, k) can run: how it ends (the exception
\* that leaves it, if any), the provider calls it made and the list it returns
SearchRuns(q, k) ==
    IF NotBuilt(content_embeddings)
    THEN {[outcome |-> "not_built", raised |-> FALSE, encoded |-> <<>>,
           picked |-> <<>>, results |-> <<>>]}
    ELSE IF \/ Len(content_embeddings.vecs) = 0
            \/ \E i \in 1..Len(content_embeddings.vecs) :
                  Len(content_embeddings.vecs[i]) # Len(Encode(q))
    THEN \* cosine_similarity rejects the empty one-dimensional array, and
         \* rows whose length is not the query's: ValueError in both cases
         {[outcome |-> "ValueError", raised |-> TRUE, encoded |-> << <<q>> >>,
           picked |-> <<>>, results |-> <<>>]}
    ELSE LET similarities == Similarities(q)
         IN  {LET top_indices == TopIndices(order, k)
                  passing == SelectSeq(top_indices,
                                 LAMBDA idx : AboveThreshold(similarities[idx]))
              IN  IF \E n \in 1..Len(passing) : passing[n] > Len(content_database)
                  THEN \* self.content_database[idx] raises IndexError
                       [outcome |-> "IndexError", raised |-> TRUE,
                        encoded |-> << <<q>> >>, picked |-> <<>>, results |-> <<>>]
                  ELSE [outcome |-> "ok", raised |-> FALSE,
                        encoded |-> << <<q>> >>, picked |-> passing,
                        results |-> [n \in 1..Len(passing) |->
                            [content |-> content_database[passing[n]],
                             similarity |-> similarities[passing[n]]]]]
              : order \in argsort(similarities)}

\* search_relevant_content(q, k)
search_relevant_content(q, k) ==
    /\ op' = "search"
    /\ NoBuild
    /\ query' = q
    /\ top_k' = k
    /\ UNCHANGED <<content_database, content_embeddings,
                   embeddings_file, content_file>>
    /\ UNCHANGED <<session_vars, chunker_vars, study_vars>>
    /\ \E run \in SearchRuns(q, k) :
          /\ outcome' = run.outcome
          /\ raised' = run.raised
          /\ encoded' = run.encoded
          /\ picked' = run.picked
          /\ results' = run.results

\* one of the two files of qa_system_data/ is removed, or damaged so that
\* pickle.load raises on it
file_changes ==
    /\ \/ /\ embeddings_file.state # "absent"
          /\ embeddings_file' \in {Absent, Unreadable} \ {embeddings_file}
          /\ UNCHANGED content_file
       \/ /\ content_file.state # "absent"
          /\ content_file' \in {Absent, Unreadable} \ {content_file}
          /\ UNCHANGED embeddings_file
    /\ op' = "environment"
    /\ outcome' = "ok"
    /\ raised' = FALSE
    /\ NoBuild
    /\ encoded' = <<>>
    /\ NoSearch
    /\ UNCHANGED <<content_database, content_embeddings>>
    /\ UNCHANGED <<session_vars, chunker_vars, study_vars>>

Next ==
    \/ New
    \/ \E c \in Corpora : extract_text_from_files(c)
    \/ \E fail_batch \in 0..MaxDb, fault \in WriteFaults :
          build_embeddings(fail_batch, fault)
    \/ file_changes

\* the life of the store: sessions, ingestion, builds, the files
Spec == Init /\ [][Next]_vars

---------------------------------------------------------------------------
(* The retriever, on every store of the bounded sizes *)

Chunks == [lecture : {"lecture1"}, slide_number : 1..MaxChunks, content : Texts]

\* the lists extract_text_from_files makes in one or more calls: a slide is the
\* first of its call's lecture or follows the slide before it
Databases ==
    {d \in SeqsUpTo(Chunks, MaxDb) :
        \A i \in 1..Len(d) :
            \/ d[i].slide_number = 1
            \/ i > 1 /\ d[i].slide_number = d[i - 1].slide_number + 1}

Arrays == {Array(EncodeAll(ts)) : ts \in SeqsUpTo(Texts, MaxDb)}

InitSearch ==
    /\ content_database \in Databases
    /\ content_embeddings \in {None} \cup Arrays
    /\ embeddings_file = Absent
    /\ content_file = Absent
    /\ op = "start"
    /\ outcome = "ok"
    /\ raised = FALSE
    /\ streak = 0
    /\ snapshot_count = -1
    /\ encoded = <<>>
    /\ query = ""
    /\ top_k = 0
    /\ picked = <<>>
    /\ results = <<>>
    /\ SessionUnused
    /\ ChunkerUnused
    /\ StudyUnused

NextSearch ==
    \E q \in Queries, k \in 1..MaxTopK : search_relevant_content(q, k)

SpecSearch == InitSearch /\ [][NextSearch]_vars

---------------------------------------------------------------------------
(* Builds of databases of more than one batch *)

\* the texts of a lecture of n slides
LongTexts(n) == [i \in 1..n |-> IF i % 3 = 1 THEN "tfidf" ELSE "index"]

InitBatch ==
    /\ content_database \in {Slides(LongTexts(n)) : n \in 0..MaxLong}
    /\ content_embeddings = None
    /\ embeddings_file = Absent
    /\ content_file = Absent
    /\ op = "extract"
    /\ outcome = "ok"
    /\ raised = FALSE
    /\ streak = 0
    /\ snapshot_count = -1
    /\ encoded = <<>>
    /\ query = ""
    /\ top_k = 0
    /\ picked = <<>>
    /\ results = <<>>
    /\ SessionUnused
    /\ ChunkerUnused
    /\ StudyUnused

NextBatch ==
    \E fail_batch \in 0..NumBatches(MaxLong), fault \in WriteFaults :
        build_embeddings(fail_batch, fault)

SpecBatch == InitBatch /\ [][NextBatch]_vars

---------------------------------------------------------------------------
(* The interactive session: interactive_qa and answer_question *)

\* embeddings of another dimensionality: a content_embeddings.pkl written with
\* another embedding model, which a cache hit loads as it is
ForeignVectors == {<<1, 0, 0>>, <<0, 1, 0>>}
ForeignArrays == {Array(vs) : vs \in SeqsUpTo(ForeignVectors, MaxDb) \ {<<>>}}

\* what ollama.chat does: it returns a text or raises
Replies == {"text", "error"}

\* a variant of the dict of the except branch that counts the sources that
\* were asked for
GenerationErrorWithSources ==
    [answer |-> "Error generating answer", sources_used |-> AnswerTopK,
     has_context |-> TRUE]

\* the dict of the except branch of answer_question
GenerationError ==
    [answer |-> "Error generating answer", sources_used |-> 0, has_context |-> FALSE]

InitSession ==
    /\ content_database \in Databases
    /\ content_embeddings \in {None} \cup Arrays \cup ForeignArrays
    /\ embeddings_file = Absent
    /\ content_file = Absent
    /\ op = "start"
    /\ outcome = "ok"
    /\ raised = FALSE
    /\ streak = 0
    /\ snapshot_count = -1
    /\ encoded = <<>>
    /\ query = ""
    /\ top_k = 0
    /\ picked = <<>>
    /\ results = <<>>
    /\ session = "running"
    /\ answer = NoAnswer
    /\ ChunkerUnused
    /\ StudyUnused

\* one turn of the loop of interactive_qa on a question: answer_question(q)
\* searches when the database is not empty, then asks the model.  An exception
\* of the search leaves answer_question (the call is outside its try) and is
\* caught and printed by the loop, which goes on.
ask(q, reply) ==
    /\ session = "running"
    /\ session' = "running"
    /\ op' = "question"
    /\ query' = q
    /\ raised' = FALSE
    /\ NoBuild
    /\ UNCHANGED store
    /\ UNCHANGED <<chunker_vars, study_vars>>
    /\ IF Len(content_database) > 0
       THEN \E run \in SearchRuns(q, AnswerTopK) :
              /\ top_k' = AnswerTopK
              /\ encoded' = run.encoded
              /\ picked' = run.picked
              /\ results' = run.results
              /\ IF run.raised
                 THEN /\ outcome' = run.outcome
                      /\ answer' = NoAnswer
                 ELSE IF reply = "text"
                 THEN /\ outcome' = "answered"
                      /\ answer' = [answer |-> "generated",
                                    sources_used |-> Len(run.results),
                                    has_context |-> Len(run.results) > 0]
                 ELSE /\ outcome' = "generation_error"
                      /\ answer' = GenerationError
       ELSE \* no search: relevant_results is unbound, and when the model has
            \* replied the return expression raises UnboundLocalError inside
            \* the try, which the except turns into the error dict
            /\ top_k' = 0
            /\ encoded' = <<>>
            /\ picked' = <<>>
            /\ results' = <<>>
            /\ outcome' = IF reply = "text" THEN "UnboundLocalError"
                          ELSE "generation_error"
            /\ answer' = GenerationError

\* the turns that do not ask: 'stats' (show_stats) and the empty line
no_question(line) ==
    /\ session = "running"
    /\ op' = line
    /\ outcome' = "ok"
    /\ raised' = FALSE
    /\ NoBuild
    /\ encoded' = <<>>
    /\ NoSearch
    /\ UNCHANGED store
    /\ UNCHANGED <<session_vars, chunker_vars, study_vars>>

\* 'quit', 'exit', 'q' or KeyboardInterrupt
quit ==
    /\ session = "running"
    /\ session' = "ended"
    /\ op' = "quit"
    /\ outcome' = "ok"
    /\ raised' = FALSE
    /\ NoBuild
    /\ encoded' = <<>>
    /\ NoSearch
    /\ UNCHANGED store
    /\ UNCHANGED <<answer, chunker_vars, study_vars>>

NextSession ==
    \/ \E q \in Queries, reply \in Replies : ask(q, reply)
    \/ \E line \in {"stats", "blank"} : no_question(line)
    \/ quit

SpecSession == InitSession /\ [][NextSession]_vars

---------------------------------------------------------------------------
(* The chunker: split_into_slides *)

(* A text is a sequence of pieces.  A piece is a string of the given shape:  *)
(* lead whitespace characters, then core characters that begin and end with  *)
(* a non-blank one, then trail whitespace characters.  The words are runs of  *)
(* letters that end with a full stop.                                         *)
Piece(s, l, c, t) == [str |-> s, lead |-> l, core |-> c, trail |-> t]

DashMarker == Piece("--- Slide 1 ---", 0, 15, 0)
EqualsMarker == Piece("=== Slide 1 ===", 0, 15, 0)
ColonMarker == Piece("Slide 1:", 0, 8, 0)
NumberedSection == Piece("\n\n1. ", 2, 2, 1)
TitleSection == Piece("\n\nTitle:\n", 2, 6, 1)
BlankLine == Piece("\n\n", 2, 0, 0)
Space == Piece(" ", 1, 0, 0)
Word49 == Piece("x49.", 0, 49, 0)
Word50 == Piece("x50.", 0, 50, 0)
Word51 == Piece("x51.", 0, 51, 0)

Pieces == {DashMarker, EqualsMarker, ColonMarker, NumberedSection, TitleSection,
           BlankLine, Space, Word49, Word50, Word51}

FileTexts == SeqsUpTo(Pieces, MaxPieces)

\* slide_patterns, in the order of the list: the piece each one matches
slide_patterns ==
    <<DashMarker, EqualsMarker, ColonMarker, NumberedSection, TitleSection>>

HasFullStop(piece) == piece \in {NumberedSection, Word49, Word50, Word51}

\* the last piece of the match of pattern p that begins at piece i.  The first
\* four patterns match their marker and nothing else of a text of Pieces.  The
\* fifth, \n\n[A-Z][^.]*:\n, is greedy: from a title it runs on to the last
\* title that no full stop separates from it.
MatchEnd(text, i, p) ==
    IF p < 5 THEN i
    ELSE CHOOSE j \in i..Len(text) :
            /\ text[j] = TitleSection
            /\ \A m \in i..j : ~HasFullStop(text[m])
            /\ \A n \in (j + 1)..Len(text) :
                  ~(/\ text[n] = TitleSection
                    /\ \A m \in i..n : ~HasFullStop(text[m]))

\* re.split(pattern, content) from piece i on, cur being the part begun
RECURSIVE SplitFrom(_, _, _, _)
SplitFrom(text, i, cur, p) ==
    IF i > Len(text) THEN <<cur>>
    ELSE IF text[i] = slide_patterns[p]
    THEN <<cur>> \o SplitFrom(text, MatchEnd(text, i, p) + 1, <<>>, p)
    ELSE SplitFrom(text, i + 1, Append(cur, text[i]), p)

\* re.split(slide_patterns[p], content, flags=re.IGNORECASE)
re_split(text, p) == SplitFrom(text, 1, <<>>, p)

\* content.split('\n\n') from piece i on.  It is reached with texts no pattern
\* matches, whose only blank lines are the BlankLine pieces.
RECURSIVE ParagraphsFrom(_, _, _)
ParagraphsFrom(text, i, cur) ==
    IF i > Len(text) THEN <<cur>>
    ELSE IF text[i] = BlankLine
    THEN <<cur>> \o ParagraphsFrom(text, i + 1, <<>>)
    ELSE ParagraphsFrom(text, i + 1, Append(cur, text[i]))

paragraphs(text) == ParagraphsFrom(text, 1, <<>>)

\* part.strip(): the blank pieces at both ends go, and so do the leading blanks
\* of the first piece left and the trailing blanks of the last
strip(part) ==
    LET inked == {i \in 1..Len(part) : part[i].core > 0}
    IN  IF inked = {} THEN <<>>
        ELSE LET first == CHOOSE i \in inked : \A j \in inked : i <= j
                 last == CHOOSE i \in inked : \A j \in inked : j <= i
             IN  [n \in 1..(last - first + 1) |->
                    LET piece == part[first + n - 1]
                    IN  [piece EXCEPT
                           !.lead = IF n = 1 THEN 0 ELSE @,
                           !.trail = IF n = last - first + 1 THEN 0 ELSE @]]

\* len(s), in characters
RECURSIVE len(_)
len(s) ==
    IF s = <<>> THEN 0
    ELSE Head(s).lead + Head(s).core + Head(s).trail + len(Tail(s))

\* a variant of the test of substance, on the part as it was split
SubstantialUntrimmed(part) == len(part) > MinLength

\* len(clean_part) > 50
Substantial(part) == len(strip(part)) > MinLength

\* the loop over enumerate(parts, first): the slides of the substantial parts
Enumerated(parts, first, lecture_name, type) ==
    LET numbered == [i \in 1..Len(parts) |->
                        [lecture |-> lecture_name,
                         slide_number |-> first + i - 1,
                         content |-> strip(parts[i]),
                         type |-> type,
                         source |-> "extracted_text",
                         part |-> parts[i]]]
        kept == SelectSeq(numbered, LAMBDA s : Substantial(s.part))
    IN  [i \in 1..Len(kept) |->
            [lecture |-> kept[i].lecture, slide_number |-> kept[i].slide_number,
             content |-> kept[i].content, type |-> kept[i].type,
             source |-> kept[i].source]]

\* the fallback: the paragraphs, numbered from 1
paragraph_chunks(content, lecture_name) ==
    Enumerated(paragraphs(content), 1, lecture_name, "paragraph")

\* a variant of the loop over the patterns that goes on to the next pattern,
\* and in the end to the paragraphs, when a split leaves no slide
RECURSIVE TryPatternsUntilSlides(_, _, _)
TryPatternsUntilSlides(content, lecture_name, p) ==
    IF p > Len(slide_patterns) THEN paragraph_chunks(content, lecture_name)
    ELSE LET parts == re_split(content, p)
             found == Enumerated(Tail(parts), 1, lecture_name, "slide_content")
         IN  IF Len(parts) > 1 /\ found # <<>> THEN found
             ELSE TryPatternsUntilSlides(content, lecture_name, p + 1)

\* for pattern in slide_patterns, from the p-th on, then the fallback
RECURSIVE TryPatterns(_, _, _)
TryPatterns(content, lecture_name, p) ==
    IF p > Len(slide_patterns) THEN paragraph_chunks(content, lecture_name)
    ELSE LET parts == re_split(content, p)
         IN  IF Len(parts) > 1
             THEN Enumerated(Tail(parts), 1, lecture_name, "slide_content")
             ELSE TryPatterns(content, lecture_name, p + 1)

\* a variant of split_into_slides that looks on until slides are found
split_until_slides(content, lecture_name) ==
    TryPatternsUntilSlides(content, lecture_name, 1)

\* split_into_slides(content, lecture_name)
split_into_slides(content, lecture_name) == TryPatterns(content, lecture_name, 1)

InitChunk ==
    /\ content_database = <<>>
    /\ content_embeddings = None
    /\ embeddings_file = Absent
    /\ content_file = Absent
    /\ op = "start"
    /\ outcome = "ok"
    /\ raised = FALSE
    /\ streak = 0
    /\ snapshot_count = -1
    /\ encoded = <<>>
    /\ query = ""
    /\ top_k = 0
    /\ picked = <<>>
    /\ results = <<>>
    /\ SessionUnused
    /\ file_text \in FileTexts
    /\ slides = <<>>
    /\ lecture_files = <<>>
    /\ midterm_json = [state |-> "absent", consolidated |-> <<>>]
    /\ StudyUnused

\* the call split_into_slides(content, lecture_name) on the text of a file
split ==
    /\ op = "start"
    /\ op' = "split"
    /\ slides' = split_into_slides(file_text, "lecture1")
    /\ UNCHANGED <<content_database, content_embeddings, embeddings_file,
                   content_file, outcome, raised, streak, snapshot_count,
                   encoded, query, top_k, picked, results, file_text,
                   lecture_files, midterm_json>>
    /\ UNCHANGED <<session_vars, study_vars>>

NextChunk == split

SpecChunk == InitChunk /\ [][NextChunk]_vars

---------------------------------------------------------------------------
(* Ingestion of the lecture files and of the midterm guide *)

LectureNames == {"lecture1", "lecture2"}

\* the texts of the lecture files: two marked slides of which the first is too
\* short, two marked slides, one paragraph
LectureTexts ==
    {<<DashMarker, Word50, DashMarker, Word51>>,
     <<DashMarker, Word51, DashMarker, Word51>>,
     <<Word51>>}

\* a file of output/: its lecture name, whether open and read succeed, its text
TextFiles == [name : LectureNames, readable : BOOLEAN, text : LectureTexts]

\* the directory: files of different names, in any order
Directories ==
    {d \in SeqsUpTo(TextFiles, Cardinality(LectureNames)) :
        /\ \A i, j \in 1..Len(d) : i # j => d[i].name # d[j].name
        /\ \A i \in 1..Len(d) :
              ~d[i].readable => d[i].text = <<Word51>>}

\* the categories of the guide, in the order of the loop
Categories == <<"key_concepts", "definitions", "formulas", "algorithms">>

\* an item of the guide: midterm_study_guide.py writes every line the model
\* marked, of any length; item.get('text', '') of an item without text is ''
GuideItems == [lecture : {"lecture1"}, text : {<<>>, <<Word49>>, <<Word51>>}]

\* midterm_data['consolidated']: no item or one item in each category
Consolidated == [1..Len(Categories) -> SeqsUpTo(GuideItems, 1)]

Guides ==
    {[state |-> "absent", consolidated |-> <<>>],
     [state |-> "unreadable", consolidated |-> <<>>]}
    \cup {[state |-> "ok", consolidated |-> c] : c \in Consolidated}

\* a variant of the loop over the files that ends at the first file that
\* cannot be read
RECURSIVE FromFilesUntilError(_)
FromFilesUntilError(files) ==
    IF files = <<>> \/ ~Head(files).readable THEN <<>>
    ELSE split_into_slides(Head(files).text, Head(files).name)
         \o FromFilesUntilError(Tail(files))

\* the slides of the files, file after file; a file that cannot be read is
\* reported and left out
RECURSIVE FromFiles(_)
FromFiles(files) ==
    IF files = <<>> THEN <<>>
    ELSE (IF Head(files).readable
          THEN split_into_slides(Head(files).text, Head(files).name)
          ELSE <<>>) \o FromFiles(Tail(files))

\* the entries of the items of the categories c, c + 1, ...
RECURSIVE FromCategories(_, _)
FromCategories(consolidated, c) ==
    IF c > Len(Categories) THEN <<>>
    ELSE [i \in 1..Len(consolidated[c]) |->
             [lecture |-> consolidated[c][i].lecture,
              type |-> Categories[c],
              content |-> consolidated[c][i].text,
              source |-> "midterm_guide"]]
         \o FromCategories(consolidated, c + 1)

\* the entries of the guide, none if the file is not there or cannot be loaded
FromGuide(guide) ==
    IF guide.state = "ok" THEN FromCategories(guide.consolidated, 1) ELSE <<>>

InitIngest ==
    /\ content_database = <<>>
    /\ content_embeddings = None
    /\ embeddings_file = Absent
    /\ content_file = Absent
    /\ op = "init"
    /\ outcome = "ok"
    /\ raised = FALSE
    /\ streak = 0
    /\ snapshot_count = -1
    /\ encoded = <<>>
    /\ query = ""
    /\ top_k = 0
    /\ picked = <<>>
    /\ results = <<>>
    /\ SessionUnused
    /\ file_text = <<>>
    /\ slides = <<>>
    /\ lecture_files \in Directories
    /\ midterm_json \in Guides
    /\ StudyUnused

\* extract_text_from_files() on the files of the directory and the guide
extract_files_and_guide ==
    LET added == FromFiles(lecture_files) \o FromGuide(midterm_json)
    IN  /\ Len(content_database) + Len(added) <= MaxStore
        /\ content_database' = content_database \o added
        /\ op' = "extract"
        /\ outcome' = IF Len(added) > 0 THEN "ok" ELSE "no_content"
        /\ raised' = FALSE
        /\ NoBuild
        /\ encoded' = <<>>
        /\ NoSearch
        /\ UNCHANGED <<content_embeddings, embeddings_file, content_file>>
        /\ UNCHANGED <<session_vars, chunker_vars, study_vars>>

NextIngest == extract_files_and_guide

SpecIngest == InitIngest /\ [][NextIngest]_vars

---------------------------------------------------------------------------
(* The conversational study system: ConversationalStudySystem *)

(* A text is a sequence of words separated by blanks. *)

\* len(word)
Chars(word) ==
    CASE word \in {"|"} -> 1
      [] word \in {"is", "q:", "a:", "Q:", "A:"} -> 2
      [] word \in {"the"} -> 3
      [] word \in {"what"} -> 4
      [] word \in {"tfidf", "index", "Index", "ranks"} -> 5
      [] OTHER -> 8   \* "indexing", "previous", "Previous", "ranks..."

\* word.lower()
Lower(word) ==
    CASE word = "Index" -> "index"
      [] word = "Previous" -> "previous"
      [] word = "Q:" -> "q:"
      [] word = "A:" -> "a:"
      [] OTHER -> word

LowerAll(text) == [i \in 1..Len(text) |-> Lower(text[i])]

\* how many times the word occurs in a word of a text, as a substring
Occurrences(word, in) ==
    IF word = in \/ (word = "index" /\ in = "indexing") \/ (word = "ranks" /\ in = "ranks...")
    THEN 1 ELSE 0

\* lecture_text.count(word)
RECURSIVE count(_, _)
count(text, word) ==
    IF text = <<>> THEN 0
    ELSE Occurrences(word, Head(text)) + count(Tail(text), word)

\* content[:200] + "...": the dots follow the last word of a short answer
Dotted(text) ==
    IF text = <<>> THEN <<"...">>
    ELSE [i \in 1..Len(text) |->
             IF i = Len(text) /\ text[i] = "ranks" THEN "ranks..." ELSE text[i]]

StudyTexts == {<<"tfidf", "index", "indexing">>, <<"previous", "the", "index">>}

Questions == {<<"what", "is", "tfidf">>, <<"the", "Index">>}

\* what ollama.chat does: it answers a text, or it raises
Answers == {<<"index", "ranks">>}
StudyReplies ==
    {[raised |-> FALSE, text |-> a] : a \in Answers}
    \cup {[raised |-> TRUE, text |-> <<>>]}

\* the files of output/ as the study system reads them
StudyFiles == [name : LectureNames, readable : BOOLEAN, text : StudyTexts]

\* the directory, in the order of the names
StudyDirectories ==
    {d \in SeqsUpTo(StudyFiles, Cardinality(LectureNames)) :
        /\ \A i, j \in 1..Len(d) : i < j => d[i].name = "lecture1" /\ d[j].name = "lecture2"
        /\ \A i \in 1..Len(d) :
              ~d[i].readable => d[i].text = <<"tfidf", "index", "indexing">>}

\* the guides the study system is given
StudyGuides ==
    {g \in Guides :
        g.state = "ok" =>
            /\ g.consolidated[1] = <<[lecture |-> "lecture1", text |-> <<Word51>>]>>
            /\ \A c \in 2..Len(Categories) : g.consolidated[c] = <<>>}

\* self.content_database[lecture_name] = {...}: the value of the key is
\* replaced, a new key comes last
Assign(database, lecture_name, raw_text) ==
    IF \E i \in 1..Len(database) : database[i].lecture = lecture_name
    THEN [i \in 1..Len(database) |->
             IF database[i].lecture = lecture_name
             THEN [lecture |-> lecture_name, raw_text |-> raw_text]
             ELSE database[i]]
    ELSE Append(database, [lecture |-> lecture_name, raw_text |-> raw_text])

\* the loop over the files of load_course_content
RECURSIVE LoadFiles(_, _)
LoadFiles(database, files) ==
    IF files = <<>> THEN database
    ELSE LoadFiles(IF Head(files).readable
                   THEN Assign(database, Head(files).name, Head(files).text)
                   ELSE database,
                   Tail(files))

\* the sum over the words of the query that are longer than ShortWord
RECURSIVE relevance_score(_, _)
relevance_score(lecture_text, words) ==
    IF words = <<>> THEN 0
    ELSE (IF Chars(Head(words)) > ShortWord
          THEN count(lecture_text, Head(words)) ELSE 0)
         + relevance_score(lecture_text, Tail(words))

\* a variant of the sort in which, of entries of equal score, the last comes
\* first
RECURSIVE SortByScoreLastFirst(_)
SortByScoreLastFirst(entries) ==
    IF entries = <<>> THEN <<>>
    ELSE LET best == CHOOSE i \in 1..Len(entries) :
                        /\ \A j \in 1..Len(entries) : entries[j].score <= entries[i].score
                        /\ \A j \in (i + 1)..Len(entries) : entries[j].score < entries[i].score
         IN  <<entries[best]>>
             \o SortByScoreLastFirst([k \in 1..(Len(entries) - 1) |->
                                IF k < best THEN entries[k] ELSE entries[k + 1]])

\* relevant_content.sort(key=score, reverse=True): the sort is stable, entries
\* of equal score keep their order
RECURSIVE SortByScore(_)
SortByScore(entries) ==
    IF entries = <<>> THEN <<>>
    ELSE LET best == CHOOSE i \in 1..Len(entries) :
                        /\ \A j \in 1..Len(entries) : entries[j].score <= entries[i].score
                        /\ \A j \in 1..(i - 1) : entries[j].score < entries[i].score
         IN  <<entries[best]>>
             \o SortByScore([k \in 1..(Len(entries) - 1) |->
                                IF k < best THEN entries[k] ELSE entries[k + 1]])

\* the body of find_relevant_content, database being self.content_database
RelevantIn(database, question, conversation_context) ==
    LET combined_query == LowerAll(question) \o LowerAll(conversation_context)
        scored == [i \in 1..Len(database) |->
                     [lecture |-> database[i].lecture,
                      score |-> relevance_score(LowerAll(database[i].raw_text),
                                                combined_query),
                      content |-> database[i].raw_text]]
        relevant_content == SortByScore(SelectSeq(scored, LAMBDA e : e.score > 0))
    IN  SubSeq(relevant_content, 1, Min(TopLectures, Len(relevant_content)))

\* find_relevant_content(question, conversation_context)
find_relevant_content(question, conversation_context) ==
    RelevantIn(lecture_texts, question, conversation_context)

\* history[-last_n:]; -0 is 0, and history[0:] is the whole list
LastTurns(history, n) ==
    IF n = 0 THEN history
    ELSE SubSeq(history, Len(history) - Min(n, Len(history)) + 1, Len(history))

\* get_conversation_context(last_n), the value it returns
ConversationContext(n) ==
    IF Len(conversation_history) <= n THEN conversation_history
    ELSE LastTurns(conversation_history, n)

\* " | ".join(context_parts) of the entries from the i-th on
RECURSIVE ContextSummary(_, _)
ContextSummary(recent_context, i) ==
    IF i > Len(recent_context) THEN <<>>
    ELSE (IF i > 1 THEN <<"|">> ELSE <<>>)
         \o (IF recent_context[i].type = "question"
             THEN <<"Previous", "Q:">> \o recent_context[i].content
             ELSE <<"Previous", "A:">> \o Dotted(recent_context[i].content))
         \o ContextSummary(recent_context, i + 1)

LecturesOf(relevant_content) ==
    [i \in 1..Len(relevant_content) |-> relevant_content[i].lecture]

InitStudy ==
    /\ content_database = <<>>
    /\ content_embeddings = None
    /\ embeddings_file = Absent
    /\ content_file = Absent
    /\ op = "init"
    /\ outcome = "ok"
    /\ raised = FALSE
    /\ streak = 0
    /\ snapshot_count = -1
    /\ encoded = <<>>
    /\ query = ""
    /\ top_k = 0
    /\ picked = <<>>
    /\ results = <<>>
    /\ SessionUnused
    /\ ChunkerUnused
    /\ StudyUnused

\* what the engine of course_qa_system.py holds, which the study system has not
EngineUnchanged ==
    UNCHANGED <<content_database, content_embeddings, embeddings_file,
                content_file, raised, streak, snapshot_count, encoded, query,
                top_k, picked, results, session, chunker_vars>>

\* load_course_content() on the files of output/ and the guide
load_course_content(files, guide) ==
    /\ op' = "load"
    /\ lecture_texts' = LoadFiles(lecture_texts, files)
    /\ quick_facts' = IF guide.state = "ok" THEN guide.consolidated ELSE quick_facts
    /\ outcome' = IF \E i \in 1..Len(files) : files[i].readable
                  THEN "ok" ELSE "no_content"
    /\ UNCHANGED <<conversation_history, context, last_n, answer>>
    /\ EngineUnchanged
    /\ UNCHANGED turn_vars

\* get_conversation_context(last_n)
get_conversation_context(n) ==
    /\ op' = "get_conversation_context"
    /\ outcome' = "ok"
    /\ context' = ConversationContext(n)
    /\ last_n' = n
    /\ UNCHANGED <<conversation_history, lecture_texts, quick_facts, answer>>
    /\ EngineUnchanged
    /\ UNCHANGED turn_vars

\* show_history(): the last HistoryLastN questions and answers are printed
show_history ==
    /\ op' = "show_history"
    /\ outcome' = "ok"
    /\ context' = ConversationContext(HistoryLastN * 2)
    /\ last_n' = HistoryLastN * 2
    /\ UNCHANGED <<conversation_history, lecture_texts, quick_facts, answer>>
    /\ EngineUnchanged
    /\ UNCHANGED turn_vars

\* a variant of the update of the history that keeps the last exchange only
RecordLastTurns(history, question, text, relevant_content) ==
    <<[type |-> "question", content |-> question,
       relevant_lectures |-> LecturesOf(relevant_content)],
      [type |-> "answer", content |-> text,
       sources_used |-> Len(relevant_content)]>>

\* a variant of the update of the history that appends the answer only
RecordAnswer(history, question, text, relevant_content) ==
    Append(history, [type |-> "answer", content |-> text,
                     sources_used |-> Len(relevant_content)])

\* the two appends to self.conversation_history: the question, then the answer
RecordTurns(history, question, text, relevant_content) ==
    history \o
    <<[type |-> "question", content |-> question,
       relevant_lectures |-> LecturesOf(relevant_content)],
      [type |-> "answer", content |-> text,
       sources_used |-> Len(relevant_content)]>>

\* answer_question(question); reply is what ollama.chat does
answer_question(question, reply) ==
    LET recent_context == ConversationContext(DefaultLastN)
        context_summary == ContextSummary(recent_context, 1)
        relevant_content == find_relevant_content(question, context_summary)
    IN  /\ Len(conversation_history) + 2 <= MaxTurns
        /\ op' = "answer_question"
        /\ context' = recent_context
        /\ last_n' = DefaultLastN
        /\ UNCHANGED <<lecture_texts, quick_facts>>
        /\ EngineUnchanged
        /\ UNCHANGED turn_vars
        /\ IF ~reply.raised
           THEN /\ outcome' = "answered"
                /\ conversation_history' =
                      RecordTurns(conversation_history, question, reply.text,
                                  relevant_content)
                /\ answer' = [answer |-> reply.text,
                              sources_used |-> Len(relevant_content),
                              relevant_lectures |-> LecturesOf(relevant_content),
                              conversation_length |-> Len(conversation_history) + 2]
           ELSE /\ outcome' = "generation_error"
                /\ UNCHANGED conversation_history
                /\ answer' = [answer |-> <<"Sorry">>,
                              sources_used |-> 0,
                              relevant_lectures |-> <<>>,
                              conversation_length |-> Len(conversation_history)]

\* a variant of clear_history that starts the object over, as __init__ does
reset_all ==
    /\ op' = "clear"
    /\ outcome' = IF conversation_history = <<>> THEN "was_empty" ELSE "cleared"
    /\ conversation_history' = <<>>
    /\ lecture_texts' = <<>>
    /\ quick_facts' = <<>>
    /\ UNCHANGED <<context, last_n, answer>>
    /\ EngineUnchanged
    /\ UNCHANGED turn_vars

\* clear_history(); outcome tells whether there was a history to clear
clear_history ==
    /\ op' = "clear"
    /\ outcome' = IF conversation_history = <<>> THEN "was_empty" ELSE "cleared"
    /\ conversation_history' = <<>>
    /\ UNCHANGED <<lecture_texts, quick_facts, context, last_n, answer>>
    /\ EngineUnchanged
    /\ UNCHANGED turn_vars

\* the commands of start_study_session that print and change nothing: 'help'
\* (show_help), 'stats' (show_study_stats), 'topics' (list_topics)
command(line) ==
    /\ line \in {"help", "stats", "topics"}
    /\ op' = "command"
    /\ outcome' = "ok"
    /\ UNCHANGED <<study_vars, answer>>
    /\ EngineUnchanged
    /\ UNCHANGED turn_vars

NextStudy ==
    \/ \E line \in {"help", "stats", "topics"} : command(line)
    \/ \E files \in StudyDirectories, guide \in StudyGuides :
          load_course_content(files, guide)
    \/ \E n \in 0..MaxLastN : get_conversation_context(n)
    \/ show_history
    \/ \E question \in Questions, reply \in StudyReplies :
          answer_question(question, reply)
    \/ clear_history

SpecStudy == InitStudy /\ [][NextStudy]_vars

---------------------------------------------------------------------------
(* Keyword retrieval on databases of more lectures than it returns *)

KeywordNames ==
    <<"lecture1", "lecture2", "lecture3", "lecture4", "lecture5", "lecture6">>

\* the texts of the lectures; no word of the last is long enough to count
KeywordTexts == StudyTexts \cup {<<"the">>}

\* self.content_database after load_course_content, in the order of the keys
KeywordDatabases ==
    UNION {{[i \in 1..k |-> [lecture |-> KeywordNames[i], raw_text |-> texts[i]]] :
               texts \in [1..k -> KeywordTexts]} :
           k \in 0..MaxLectures}

\* the histories: none, or one exchange
KeywordHistories ==
    {<<>>} \cup
    {RecordTurns(<<>>, question, text, <<>>) :
        question \in Questions, text \in Answers}

InitKeyword ==
    /\ content_database = <<>>
    /\ content_embeddings = None
    /\ embeddings_file = Absent
    /\ content_file = Absent
    /\ op = "load"
    /\ outcome = "ok"
    /\ raised = FALSE
    /\ streak = 0
    /\ snapshot_count = -1
    /\ encoded = <<>>
    /\ query = ""
    /\ top_k = 0
    /\ picked = <<>>
    /\ results = <<>>
    /\ SessionUnused
    /\ ChunkerUnused
    /\ conversation_history \in KeywordHistories
    /\ lecture_texts \in KeywordDatabases
    /\ quick_facts = <<>>
    /\ context = <<>>
    /\ last_n = -1
    /\ TurnUnused

\* the retrieval of answer_question(question): the context is summarised and
\* find_relevant_content is called; query and results hold its argument and
\* the list it returns
retrieve(question) ==
    LET recent_context == ConversationContext(DefaultLastN)
        context_summary == ContextSummary(recent_context, 1)
    IN  /\ op' = "retrieve"
        /\ outcome' = "ok"
        /\ context' = recent_context
        /\ last_n' = DefaultLastN
        /\ query' = question
        /\ results' = find_relevant_content(question, context_summary)
        /\ UNCHANGED <<conversation_history, lecture_texts, quick_facts, answer>>
        /\ UNCHANGED <<content_database, content_embeddings, embeddings_file,
                       content_file, raised, streak, snapshot_count, encoded,
                       top_k, picked, session, chunker_vars, turn_vars>>

NextKeyword == \E question \in Questions : retrieve(question)

SpecKeyword == InitKeyword /\ [][NextKeyword]_vars

---------------------------------------------------------------------------
(* Both systems on one output directory: each reads the lecture files and
   the guide that are on the disk *)

InitDisk == InitIngest

\* ConversationalStudySystem.load_course_content() on the directory
load_from_disk == load_course_content(lecture_files, midterm_json)

NextDisk ==
    \/ extract_files_and_guide
    \/ load_from_disk

SpecDisk == InitDisk /\ [][NextDisk]_vars

---------------------------------------------------------------------------
(* The two answer_question methods, each in its loop, with a generation      *)
(* model that answers or raises                                              *)

\* the lectures the study system has loaded: none, or one
AnswerLectures ==
    {<<>>} \cup
    {<<[lecture |-> "lecture1", raw_text |-> text]>> : text \in StudyTexts}

InitAnswer ==
    /\ content_database \in Databases
    /\ content_embeddings \in {None} \cup Arrays \cup ForeignArrays
    /\ embeddings_file = Absent
    /\ content_file = Absent
    /\ op = "start"
    /\ outcome = "ok"
    /\ raised = FALSE
    /\ streak = 0
    /\ snapshot_count = -1
    /\ encoded = <<>>
    /\ query = ""
    /\ top_k = 0
    /\ picked = <<>>
    /\ results = <<>>
    /\ session = "running"
    /\ answer = NoAnswer
    /\ ChunkerUnused
    /\ conversation_history = <<>>
    /\ lecture_texts \in AnswerLectures
    /\ quick_facts = <<>>
    /\ context = <<>>
    /\ last_n = -1
    /\ TurnUnused

NextAnswer ==
    \/ \E q \in Queries, reply \in Replies : ask(q, reply)
    \/ \E line \in {"stats", "blank"} : no_question(line)
    \/ quit
    \/ \E question \in Questions, reply \in StudyReplies : answer_question(question, reply)

SpecAnswer == InitAnswer /\ [][NextAnswer]_vars

---------------------------------------------------------------------------
(* The loop of start_study_session, statement by statement: pc is the      *)
(* statement the one thread of the program is at, locals the locals of the *)
(* answer_question call it is in                                           *)

\* a variant of the order of the statements in which the turn is recorded
\* before the model is called
RecordBeforeCall(step, failed) ==
    CASE step = "input" -> "retrieve"
      [] step = "retrieve" -> "compose"
      [] step = "compose" -> "record"
      [] step = "record" -> "generate"
      [] step = "generate" -> IF failed THEN "except" ELSE "print"
      [] step = "except" -> "print"
      [] step = "print" -> "input"

\* the statement that follows a statement of the loop and of answer_question;
\* failed tells that the statement raised an Exception
StepAfter(step, failed) ==
    CASE step = "input" -> "retrieve"
      [] step = "retrieve" -> "compose"
      [] step = "compose" -> "generate"
      [] step = "generate" -> IF failed THEN "except" ELSE "record"
      [] step = "record" -> "print"
      [] step = "except" -> "print"
      [] step = "print" -> "input"

InitTurn ==
    /\ content_database = <<>>
    /\ content_embeddings = None
    /\ embeddings_file = Absent
    /\ content_file = Absent
    /\ op = "load"
    /\ outcome = "ok"
    /\ raised = FALSE
    /\ streak = 0
    /\ snapshot_count = -1
    /\ encoded = <<>>
    /\ query = ""
    /\ top_k = 0
    /\ picked = <<>>
    /\ results = <<>>
    /\ SessionUnused
    /\ ChunkerUnused
    /\ conversation_history = <<>>
    /\ lecture_texts \in AnswerLectures \ {<<>>}
    /\ quick_facts = <<>>
    /\ context = <<>>
    /\ last_n = -1
    /\ pc = "input"
    /\ locals = NoLocals
    /\ steps = <<>>
    /\ in_progress = 0

\* what a statement of the turn leaves alone
TurnStepUnchanged ==
    /\ EngineUnchanged
    /\ UNCHANGED <<lecture_texts, quick_facts>>

\* input() returns a question: answer_question(user_input) is entered
read_question(question) ==
    /\ pc = "input"
    /\ Len(conversation_history) + 2 <= MaxTurns
    /\ op' = "input"
    /\ outcome' = "question"
    /\ pc' = StepAfter("input", FALSE)
    /\ locals' = [NoLocals EXCEPT !.question = question]
    /\ steps' = <<>>
    /\ in_progress' = in_progress + 1
    /\ UNCHANGED <<conversation_history, context, last_n, answer>>
    /\ TurnStepUnchanged

\* input() returns a command: the branch of the command runs and the loop
\* continues
read_command ==
    /\ pc = "input"
    /\ \/ \E line \in {"help", "stats", "topics"} : command(line)
       \/ show_history
       \/ clear_history

\* input() returns 'quit', 'exit' or 'q': the loop is left
quit_study ==
    /\ pc = "input"
    /\ op' = "quit"
    /\ outcome' = "ok"
    /\ pc' = "done"
    /\ UNCHANGED <<conversation_history, context, last_n, answer, locals,
                   steps, in_progress>>
    /\ TurnStepUnchanged

\* get_conversation_context(), the summary of the context and
\* find_relevant_content(question, context_summary)
find_content ==
    LET recent_context == ConversationContext(DefaultLastN)
        context_summary == ContextSummary(recent_context, 1)
    IN  /\ pc = "retrieve"
        /\ op' = "retrieve"
        /\ outcome' = "ok"
        /\ context' = recent_context
        /\ last_n' = DefaultLastN
        /\ locals' = [locals EXCEPT !.relevant_content =
                         find_relevant_content(locals.question, context_summary)]
        /\ steps' = Append(steps, "retrieve")
        /\ pc' = StepAfter("retrieve", FALSE)
        /\ UNCHANGED <<conversation_history, answer, in_progress>>
        /\ TurnStepUnchanged

\* the prompt: with the course content when there is relevant content, the
\* general one when there is none
build_prompt ==
    /\ pc = "compose"
    /\ op' = "compose"
    /\ outcome' = IF locals.relevant_content # <<>> THEN "with_content" ELSE "general"
    /\ locals' = [locals EXCEPT !.prompt =
                     <<[question |-> locals.question,
                        context_summary |-> ContextSummary(context, 1),
                        lectures |-> LecturesOf(locals.relevant_content)]>>]
    /\ steps' = Append(steps, "compose")
    /\ pc' = StepAfter("compose", FALSE)
    /\ UNCHANGED <<conversation_history, context, last_n, answer, in_progress>>
    /\ TurnStepUnchanged

\* ollama.chat(...) returns the reply or raises
call_model(reply) ==
    /\ pc = "generate"
    /\ op' = "generate"
    /\ outcome' = IF reply.raised THEN "generation_error" ELSE "ok"
    /\ locals' = [locals EXCEPT !.response = reply]
    /\ steps' = Append(steps, "generate")
    /\ pc' = StepAfter("generate", reply.raised)
    /\ UNCHANGED <<conversation_history, context, last_n, answer, in_progress>>
    /\ TurnStepUnchanged

\* the two appends to the history and the return of the result
record_turn ==
    /\ pc = "record"
    /\ op' = "record"
    /\ outcome' = "answered"
    /\ conversation_history' =
          RecordTurns(conversation_history, locals.question,
                      locals.response.text, locals.relevant_content)
    /\ answer' = [answer |-> locals.response.text,
                  sources_used |-> Len(locals.relevant_content),
                  relevant_lectures |-> LecturesOf(locals.relevant_content),
                  conversation_length |-> Len(conversation_history) + 2]
    /\ steps' = Append(steps, "record")
    /\ pc' = StepAfter("record", FALSE)
    /\ UNCHANGED <<context, last_n, locals, in_progress>>
    /\ TurnStepUnchanged

\* the except branch of answer_question: the return of the apology
return_error ==
    /\ pc = "except"
    /\ op' = "except"
    /\ outcome' = "generation_error"
    /\ answer' = [answer |-> <<"Sorry">>,
                  sources_used |-> 0,
                  relevant_lectures |-> <<>>,
                  conversation_length |-> Len(conversation_history)]
    /\ steps' = Append(steps, "except")
    /\ pc' = StepAfter("except", FALSE)
    /\ UNCHANGED <<conversation_history, context, last_n, locals, in_progress>>
    /\ TurnStepUnchanged

\* the loop prints the result and goes back to input()
print_result ==
    /\ pc = "print"
    /\ op' = "print"
    /\ outcome' = "ok"
    /\ locals' = NoLocals
    /\ in_progress' = in_progress - 1
    /\ pc' = StepAfter("print", FALSE)
    /\ UNCHANGED <<conversation_history, context, last_n, answer, steps>>
    /\ TurnStepUnchanged

NextTurn ==
    \/ \E question \in Questions : read_question(question)
    \/ read_command
    \/ quit_study
    \/ find_content
    \/ build_prompt
    \/ \E reply \in StudyReplies : call_model(reply)
    \/ record_turn
    \/ return_error
    \/ print_result

SpecTurn == InitTurn /\ [][NextTurn]_vars

---------------------------------------------------------------------------
(* Claims *)

DatabaseTexts == [i \in 1..Len(content_database) |-> content_database[i].content]

\* the texts of a sequence of provider calls, in the order they were passed
RECURSIVE Flatten(_)
Flatten(calls) ==
    IF calls = <<>> THEN <<>> ELSE Head(calls) \o Flatten(Tail(calls))

\* C1: whenever embeddings are present, there are as many of them as there are
\* entries of content_database.
C1_EmbeddingCountEqualsChunkCount ==
    content_embeddings.set =>
        Len(content_embeddings.vecs) = Len(content_database)

\* C2: a build_embeddings call that follows directly on one that returned, on
\* the same content_database, is a cache hit: it calls the provider not once
\* and leaves the database, the embeddings and the two files as they were.
C2_SecondBuildIsCacheHit ==
    [][(op = "build" /\ ~raised /\ op' = "build") =>
          /\ outcome' = "hit"
          /\ encoded' = <<>>
          /\ ~raised'
          /\ store' = store]_vars

C2_Witness ==
    /\ op = "build"
    /\ streak = 2
    /\ outcome = "hit"
    /\ Len(content_database) > 0
    /\ content_embeddings = Array(EncodeAll(DatabaseTexts))

\* C3: after a cache hit the embedding at every index is the provider's vector
\* of the text of the chunk at that index of content_database, the list search
\* takes its results from.
C3_CacheHitEmbeddingsBelongToChunks ==
    (op = "build" /\ outcome = "hit") =>
        /\ Len(content_embeddings.vecs) = Len(content_database)
        /\ \A i \in 1..Len(content_database) :
              content_embeddings.vecs[i] = Encode(content_database[i].content)

\* C4: a build_embeddings call that finds a persisted chunk count different
\* from len(content_database) is no cache hit; it passes the texts of the
\* current chunks to the provider and, when it returns, there are exactly
\* len(content_database) embeddings, of the current chunks, in memory and in
\* the files.
C4_CountChangeForcesRebuild ==
    [][(/\ op' = "build"
        /\ content_file.state = "ok"
        /\ Len(content_file.data) # Len(content_database)) =>
          /\ outcome' # "hit"
          /\ Len(content_database) > 0 =>
                /\ encoded' # <<>>
                /\ Flatten(encoded') = SubSeq(DatabaseTexts, 1, Len(Flatten(encoded')))
          /\ ~raised' =>
                /\ outcome' = "built"
                /\ Flatten(encoded') = DatabaseTexts
                /\ Len(content_embeddings'.vecs) = Len(content_database)
                /\ content_embeddings' = Array(EncodeAll(DatabaseTexts))
                /\ embeddings_file' = Pickled(EncodeAll(DatabaseTexts))
                /\ content_file' = Pickled(content_database)]_vars

C4_Witness ==
    /\ op = "build"
    /\ outcome = "built"
    /\ snapshot_count >= 0
    /\ snapshot_count # Len(content_database)
    /\ Len(content_database) > 0
    /\ Len(content_embeddings.vecs) = Len(content_database)

\* C5: a build_embeddings call leaves the two files either both as they were
\* or both holding the snapshot it built.
C5_PersistIsAtomic ==
    [][op' = "build" =>
          \/ /\ embeddings_file' = embeddings_file
             /\ content_file' = content_file
          \/ /\ embeddings_file' = Pickled(EncodeAll(DatabaseTexts))
             /\ content_file' = Pickled(content_database)]_vars

\* C6: a build_embeddings call in which an encode call fails raises to its
\* caller and leaves the embeddings in memory and the two files as they were.
C6_FailedBuildLeavesStore ==
    [][(op' = "build" /\ outcome' = "encode_error") =>
          /\ raised'
          /\ content_embeddings' = content_embeddings
          /\ embeddings_file' = embeddings_file
          /\ content_file' = content_file]_vars

\* C7: a build_embeddings call in which writing a file fails still returns,
\* with the embeddings it built in memory.
C7_WriteFailureIsNotFatal ==
    (op = "build" /\ outcome = "write_error") =>
        /\ ~raised
        /\ content_embeddings = Array(EncodeAll(DatabaseTexts))

\* C8: the results of a search descend in similarity, and of two results of
\* equal similarity the one with the lower slide number comes first.
C8_SortedWithSlideNumberTieBreak ==
    (op = "search" /\ ~raised) =>
        \A m, n \in 1..Len(results) :
            m < n =>
                /\ ~SimLess(results[m].similarity, results[n].similarity)
                /\ SimEq(results[m].similarity, results[n].similarity) =>
                      results[m].content.slide_number <= results[n].content.slide_number

\* C9: every result of a search has a similarity, that of its stored embedding
\* to the query, strictly greater than 0.1.
C9_ResultsAboveThreshold ==
    op = "search" =>
        /\ Len(picked) = Len(results)
        /\ \A n \in 1..Len(results) :
              LET s == cosine_similarity(Encode(query), content_embeddings.vecs[picked[n]])
              IN  /\ results[n].similarity = s
                  /\ s.num > 0
                  /\ ThresholdDen * ThresholdDen * s.num > ThresholdNum * ThresholdNum * s.den

\* an embedding of similarity exactly 0.1 to the query
AtThreshold(i) ==
    LET s == cosine_similarity(Encode(query), content_embeddings.vecs[i])
    IN  s.num > 0 /\ ThresholdDen * ThresholdDen * s.num = ThresholdNum * ThresholdNum * s.den

C9_Witness ==
    /\ op = "search"
    /\ outcome = "ok"
    /\ Len(results) >= 1
    /\ Len(results) < Min(top_k, Len(content_embeddings.vecs))
    /\ \E i \in 1..Len(content_embeddings.vecs) :
          AtThreshold(i) /\ \A n \in 1..Len(picked) : picked[n] # i

StoredSimilarity(i) == cosine_similarity(Encode(query), content_embeddings.vecs[i])

StrictlyAbove(s) ==
    s.num > 0 /\ ThresholdDen * ThresholdDen * s.num > ThresholdNum * ThresholdNum * s.den

\* C10: a search that returns gives at most top_k results, and they are the
\* chunks at the indices that are among the top_k embeddings of highest
\* similarity and pass the threshold: none of these is left out and no other
\* index is used.
C10_ResultsAreThePassingTopK ==
    (op = "search" /\ outcome = "ok") =>
        LET N == Len(content_embeddings.vecs)
            P == {picked[n] : n \in 1..Len(picked)}
        IN  /\ Len(results) <= top_k
            /\ Len(results) = Len(picked)
            /\ Cardinality(P) = Len(picked)
            /\ \A n \in 1..Len(results) :
                  results[n].content = content_database[picked[n]]
            /\ \E T \in SUBSET (1..N) :
                  /\ Cardinality(T) = Min(top_k, N)
                  /\ \A i \in T, j \in (1..N) \ T :
                        ~SimLess(StoredSimilarity(i), StoredSimilarity(j))
                  /\ P = {i \in T : StrictlyAbove(StoredSimilarity(i))}

C10_Witness ==
    /\ op = "search"
    /\ outcome = "ok"
    /\ Len(content_embeddings.vecs) > top_k
    /\ Len(results) = top_k
    /\ \E i \in 1..Len(content_embeddings.vecs) :
          /\ StrictlyAbove(StoredSimilarity(i))
          /\ \A n \in 1..Len(picked) : picked[n] # i


\* C11: a search of the store a build makes of an empty corpus (no chunks, an
\* empty array of embeddings) returns the empty list and raises nothing.
C11_EmptyStoreSearchReturnsEmpty ==
    (/\ op = "search"
     /\ content_database = <<>>
     /\ content_embeddings = Array(<<>>))
        => (~raised /\ outcome = "ok" /\ results = <<>>)


\* C13: a build that generates embeddings produces one per chunk, in the order
\* of content_database (embedding i is the provider's vector of the text of
\* chunk i), for every database size, and calls the provider once per batch of
\* at most batch_size texts, the batches together being the texts in order.
C13_OneEmbeddingPerChunkInOrder ==
    (op = "build" /\ outcome \in {"built", "write_error"}) =>
        /\ content_embeddings.set
        /\ Len(content_embeddings.vecs) = Len(content_database)
        /\ \A i \in 1..Len(content_database) :
              content_embeddings.vecs[i] = Encode(content_database[i].content)
        /\ Flatten(encoded) = DatabaseTexts
        /\ \A b \in 1..Len(encoded) :
              /\ Len(encoded[b]) >= 1
              /\ Len(encoded[b]) <= batch_size
              /\ b < Len(encoded) => Len(encoded[b]) = batch_size

\* a database of more than one batch, the last batch not a full one, was built
C13_Witness ==
    /\ op = "build"
    /\ outcome = "built"
    /\ Len(content_database) > batch_size
    /\ Len(content_database) % batch_size # 0
    /\ Len(encoded) > 1


\* the stored embeddings are not of the dimensionality of the query's vector
DimensionMismatch(q) ==
    /\ content_embeddings.set
    /\ \E i \in 1..Len(content_embeddings.vecs) :
          Len(content_embeddings.vecs[i]) # Len(Encode(q))

\* C12: a question whose vector is not of the dimensionality of the stored
\* embeddings ends with the dedicated embedding-space-mismatch error, for that
\* question only: nothing is returned for it, the store is as it was, and the
\* session goes on.
C12_MismatchIsDedicatedError ==
    [][(/\ op' = "question"
        /\ content_database # <<>>
        /\ DimensionMismatch(query'))
          => /\ outcome' = "EmbeddingSpaceMismatchError"
             /\ results' = <<>>
             /\ answer' = NoAnswer
             /\ store' = store
             /\ session' = "running"]_vars


SlideContents == [i \in 1..Len(slides) |-> slides[i].content]

SlideTypes == {slides[i].type : i \in 1..Len(slides)}

\* whether the p-th pattern splits the text in more than one part
Splits(p) == Len(re_split(file_text, p)) > 1

\* the trimmed parts that are longer than MinLength, in their order
Retained(parts) ==
    SelectSeq([i \in 1..Len(parts) |-> strip(parts[i])],
              LAMBDA clean : len(clean) > MinLength)

\* C14: the slides are made with the first pattern of the list that splits the
\* text in more than one part: they are the trimmed parts after the first that
\* are longer than MinLength, none if all are too short; the paragraphs are used
\* only when no pattern splits the text.
C14_FirstSplittingPatternOnly ==
    op = "split" =>
        /\ \A p \in 1..Len(slide_patterns) :
              (Splits(p) /\ \A q \in 1..(p - 1) : ~Splits(q)) =>
                  /\ SlideContents = Retained(Tail(re_split(file_text, p)))
                  /\ SlideTypes \subseteq {"slide_content"}
        /\ (\A p \in 1..Len(slide_patterns) : ~Splits(p)) =>
              /\ SlideContents = Retained(paragraphs(file_text))
              /\ SlideTypes \subseteq {"paragraph"}

\* a pattern split the text in parts that were all too short, and no slide was
\* made although a paragraph of the text is long enough
C14_Witness ==
    /\ op = "split"
    /\ \E p \in 1..Len(slide_patterns) : Splits(p)
    /\ slides = <<>>
    /\ Retained(paragraphs(file_text)) # <<>>

\* C15: the slide_number of the i-th slide split_into_slides returns is i: the
\* numbers are the ranks 1, 2, ..., n among the parts that were kept.
C15_NumbersAreRanksAmongKept ==
    op = "split" =>
        \A i \in 1..Len(slides) : slides[i].slide_number = i

\* C16: no slide split_into_slides returns has a trimmed text of fewer than
\* MinLength characters, whether a pattern or the paragraphs made it.
C16_NoChunkBelowMinLength ==
    op = "split" =>
        \A i \in 1..Len(slides) : len(strip(slides[i].content)) >= MinLength

\* a paragraph of the least length kept was returned, of a text with blanks to
\* trim and a part that is not kept
C16_Witness ==
    /\ op = "split"
    /\ \E i \in 1..Len(slides) :
          /\ slides[i].type = "paragraph"
          /\ len(slides[i].content) = MinLength + 1
    /\ \E n \in 1..Len(file_text) : file_text[n] = Space
    /\ Len(slides) < Len(paragraphs(file_text))


\* C17: every entry of content_database has a text that is not empty when
\* trimmed and not shorter than MinLength, the entries made of the items of the
\* midterm guide like the entries made of the lecture files.
C17_EveryEntryHasSubstantialText ==
    \A i \in 1..Len(content_database) :
        /\ len(strip(content_database[i].content)) > 0
        /\ len(strip(content_database[i].content)) >= MinLength

\* C18: after any number of calls of extract_text_from_files, no two entries
\* that carry a slide_number have the same lecture and the same slide_number
\* (the pair is what identifies a chunk).
C18_LectureAndNumberAreUnique ==
    \A i, j \in 1..Len(content_database) :
        (/\ i # j
         /\ "slide_number" \in DOMAIN content_database[i]
         /\ "slide_number" \in DOMAIN content_database[j])
            => <<content_database[i].lecture, content_database[i].slide_number>>
                 # <<content_database[j].lecture, content_database[j].slide_number>>


\* whether s is the end of t
IsSuffix(s, t) ==
    /\ Len(s) <= Len(t)
    /\ \A i \in 1..Len(s) : s[i] = t[Len(t) - Len(s) + i]

\* C19: get_conversation_context(n) returns the last n entries of the history,
\* oldest first, and the whole history when it has fewer: for every n >= 0 the
\* result is an end of the history of at most n entries.
C19_ContextIsLastNTurns ==
    op = "get_conversation_context" =>
        /\ IsSuffix(context, conversation_history)
        /\ Len(context) <= last_n
        /\ Len(context) = Min(last_n, Len(conversation_history))

\* C20: clear_history leaves the history empty and the loaded content as it
\* was: content_database and quick_facts do not change, and every question
\* finds after the clear the lectures it would have found, without a history,
\* before it.
C20_ClearKeepsContent ==
    [][op' = "clear" =>
          /\ conversation_history' = <<>>
          /\ lecture_texts' = lecture_texts
          /\ quick_facts' = quick_facts
          /\ \A question \in Questions :
                RelevantIn(lecture_texts', question, <<>>)
                    = RelevantIn(lecture_texts, question, <<>>)]_vars

\* a history was cleared while lectures and a guide were loaded
C20_Witness ==
    /\ op = "clear"
    /\ outcome = "cleared"
    /\ conversation_history = <<>>
    /\ lecture_texts # <<>>
    /\ quick_facts # <<>>
    /\ \E question \in Questions : find_relevant_content(question, <<>>) # <<>>


\* whether s is the beginning of t
IsPrefix(s, t) ==
    /\ Len(s) <= Len(t)
    /\ \A i \in 1..Len(s) : s[i] = t[i]

\* C21: the history is append-only: every operation but clear_history (the
\* questions, 'stats', 'history', 'topics', 'help', the loading) leaves the
\* entries there were in place and in order, so the history before it is the
\* beginning of the history after it.
C21_HistoryIsAppendOnly ==
    [][op' # "clear" => IsPrefix(conversation_history, conversation_history')]_vars

\* a second exchange was appended to a first one
C21_Witness ==
    /\ op = "answer_question"
    /\ outcome = "answered"
    /\ Len(conversation_history) = 4


\* C27: the history has an even number of entries, a question, its answer, a
\* question, its answer, ...: an answer_question whose generation call returns
\* appends the question and then the answer and reports the new length as
\* conversation_length, and one whose generation call fails leaves the history
\* as it was.
C27_HistoryAlternates ==
    [][/\ Len(conversation_history') % 2 = 0
       /\ \A i \in 1..Len(conversation_history') :
             conversation_history'[i].type =
                 IF i % 2 = 1 THEN "question" ELSE "answer"
       /\ (op' = "answer_question" /\ outcome' = "answered") =>
             /\ Len(conversation_history') = Len(conversation_history) + 2
             /\ IsPrefix(conversation_history, conversation_history')
             /\ conversation_history'[Len(conversation_history) + 1].content
                   \in Questions
             /\ conversation_history'[Len(conversation_history) + 2].content
                   = answer'.answer
             /\ answer'.conversation_length = Len(conversation_history')
       /\ (op' = "answer_question" /\ outcome' = "generation_error") =>
             /\ conversation_history' = conversation_history
             /\ answer'.conversation_length = Len(conversation_history)]_vars

\* the generation call of a question failed after an answered one
C27_Witness ==
    /\ op = "answer_question"
    /\ outcome = "generation_error"
    /\ Len(conversation_history) = 2
    /\ answer.conversation_length = 2


\* C25: the lectures found for a question are those whose score, the sum over
\* the words of the question longer than ShortWord of their occurrences in the
\* lecture's text, is positive: no other word contributes to a score.
C25_OnlyQueryWordsScore ==
    (op = "answer_question" /\ outcome = "answered") =>
        LET asked == conversation_history[Len(conversation_history) - 1]
        IN  asked.relevant_lectures
                = LecturesOf(RelevantIn(lecture_texts, asked.content, <<>>))


\* the place of a lecture in the content database
PlaceOf(lecture) ==
    CHOOSE i \in 1..Len(lecture_texts) : lecture_texts[i].lecture = lecture

\* C26: the lectures find_relevant_content returns descend in score, those of
\* equal score in the order they have in the content database; they are at
\* most TopLectures, and none has the score zero.
C26_KeywordRanking ==
    op = "retrieve" =>
        /\ \A i, j \in 1..Len(results) :
              i < j =>
                 /\ results[i].score >= results[j].score
                 /\ results[i].score = results[j].score =>
                       PlaceOf(results[i].lecture) < PlaceOf(results[j].lecture)
        /\ Len(results) <= TopLectures
        /\ \A i \in 1..Len(results) : results[i].score > 0

\* of more lectures than are returned, one without a counted word, the most
\* that can be were returned, two of them of equal score
C26_Witness ==
    /\ op = "retrieve"
    /\ Len(lecture_texts) > TopLectures
    /\ \E i \in 1..Len(lecture_texts) : lecture_texts[i].raw_text = <<"the">>
    /\ Len(results) = TopLectures
    /\ \E i, j \in 1..Len(results) :
          i < j /\ results[i].score = results[j].score


\* C28: whatever the content database, the empty one included, the record
\* answer_question returns has has_context true exactly when sources_used > 0,
\* and when the generation call returned, its answer is the model's text and
\* its sources_used is the number of chunks retrieved for the prompt.
C28_AnswerRecordIsConsistent ==
    (op = "question" /\ outcome \notin {"ValueError", "IndexError"}) =>
        /\ answer.has_context <=> answer.sources_used > 0
        /\ outcome \in {"answered", "UnboundLocalError"} =>
              /\ answer.answer = "generated"
              /\ answer.sources_used = Len(results)


\* C30: a search while there are no embeddings (before any build) returns the
\* empty list, asks the embedding provider nothing and raises nothing, whatever
\* the query and top_k, and leaves the store as it was.
C30_SearchBeforeBuildIsEmpty ==
    [][(op' = "search" /\ ~content_embeddings.set) =>
          /\ results' = <<>>
          /\ picked' = <<>>
          /\ encoded' = <<>>
          /\ ~raised'
          /\ store' = store]_vars

\* a database that was never embedded was searched for the most results
C30_Witness ==
    /\ op = "search"
    /\ outcome = "not_built"
    /\ ~content_embeddings.set
    /\ content_database # <<>>
    /\ top_k = MaxTopK
    /\ results = <<>>


\* a snapshot of which one file only is there, or of which a file cannot be
\* loaded
Defective ==
    /\ ~(embeddings_file = Absent /\ content_file = Absent)
    /\ ~(embeddings_file.state = "ok" /\ content_file.state = "ok")

\* C29: build_embeddings takes a snapshot that is incomplete or cannot be
\* loaded for a cache miss: it is not a hit, and when the call returns, the
\* embeddings in memory are those generated for the current content_database
\* (none loaded from the snapshot) and both files have been written anew.
C29_DefectiveSnapshotIsCacheMiss ==
    [][(op' = "build" /\ Defective) =>
          /\ outcome' # "hit"
          /\ ~raised' =>
                /\ outcome' = "built"
                /\ content_embeddings' = Array(EncodeAll(DatabaseTexts))
                /\ Flatten(encoded') = DatabaseTexts
                /\ embeddings_file' = Pickled(EncodeAll(DatabaseTexts))
                /\ content_file' = Pickled(content_database)]_vars

\* a build that found a defective snapshot returned, for a database with chunks
C29_Witness ==
    /\ op = "build"
    /\ outcome = "built"
    /\ snapshot_count = -2
    /\ content_database # <<>>


\* the entries a call has appended to the store
Appended(before, after) == SubSeq(after, Len(before) + 1, Len(after))

\* the appended entries that come from the text file of the lecture
SlidesOfLecture(before, after, lecture_name) ==
    SelectSeq(Appended(before, after),
              LAMBDA e : e.source = "extracted_text" /\ e.lecture = lecture_name)

\* the entry of the lecture in the study system's database, <<>> if none
EntryOf(database, lecture_name) ==
    SelectSeq(database, LAMBDA e : e.lecture = lecture_name)

\* C23: a lecture file that cannot be read affects that lecture only. In
\* CourseQASystem the call appends, for every readable file, exactly the
\* slides of its text, and no slide for a file that cannot be read; in
\* ConversationalStudySystem every readable file becomes the entry of its
\* lecture and the entry of a lecture whose file cannot be read is left as
\* it was.
C23_UnreadableFileAffectsItsLectureOnly ==
    [][/\ op' = "extract" =>
             /\ Len(content_database') >= Len(content_database)
             /\ SubSeq(content_database', 1, Len(content_database)) = content_database
             /\ \A i \in 1..Len(lecture_files) :
                   SlidesOfLecture(content_database, content_database',
                                   lecture_files[i].name)
                     = IF lecture_files[i].readable
                       THEN split_into_slides(lecture_files[i].text,
                                              lecture_files[i].name)
                       ELSE <<>>
       /\ op' = "load" =>
             \A i \in 1..Len(lecture_files) :
                EntryOf(lecture_texts', lecture_files[i].name)
                  = IF lecture_files[i].readable
                    THEN <<[lecture |-> lecture_files[i].name,
                            raw_text |-> lecture_files[i].text]>>
                    ELSE EntryOf(lecture_texts, lecture_files[i].name)]_vars

\* both systems have read a directory whose first file cannot be read and
\* whose second file has slides
C23_Witness ==
    /\ op = "load"
    /\ Len(lecture_files) = 2
    /\ ~lecture_files[1].readable
    /\ lecture_files[2].readable
    /\ \E i \in 1..Len(content_database) :
          /\ content_database[i].source = "extracted_text"
          /\ content_database[i].lecture = lecture_files[2].name
    /\ EntryOf(lecture_texts, lecture_files[2].name) # <<>>
    /\ EntryOf(lecture_texts, lecture_files[1].name) = <<>>
    /\ \A i \in 1..Len(content_database) :
          content_database[i].source = "extracted_text"
             => content_database[i].lecture # lecture_files[1].name


\* C22: a failure of the generation call does not leave answer_question. In
\* CourseQASystem the call returns the dict of the except branch, whose
\* answer tells the failure, with sources_used 0, and the loop goes on; in
\* ConversationalStudySystem the call returns the apology with sources_used
\* 0 and no lecture, and the history is as it was.
C22_GenerationFailureIsAnAnswer ==
    [][/\ (op' = "question" /\ outcome' = "generation_error") =>
             /\ ~raised'
             /\ answer'.answer = "Error generating answer"
             /\ answer'.sources_used = 0
             /\ ~answer'.has_context
             /\ session' = "running"
       /\ (op' = "answer_question" /\ outcome' = "generation_error") =>
             /\ ~raised'
             /\ answer'.answer = <<"Sorry">>
             /\ answer'.sources_used = 0
             /\ answer'.relevant_lectures = <<>>
             /\ answer'.conversation_length = Len(conversation_history)
             /\ conversation_history' = conversation_history
             /\ session' = session]_vars

\* the model has failed on a question whose search had found chunks
C22_Witness ==
    /\ op = "question"
    /\ outcome = "generation_error"
    /\ Len(results) > 0
    /\ answer.sources_used = 0
    /\ session = "running"


\* the steps of a question the model has answered, and of one it has failed on
AnsweredSteps == <<"retrieve", "compose", "generate", "record">>
FailedSteps == <<"retrieve", "compose", "generate", "except">>

\* C24: a question is processed from start to finish before the next input
\* is read. The history grows only as the step that follows the return of
\* the generation call, after retrieval and composition, in that order; a
\* question is read only when none is in progress, so at most one is; and
\* the loop is back at input() only after all the steps of the question.
C24_OneQuestionStartToFinish ==
    [][/\ Len(conversation_history') > Len(conversation_history) =>
             /\ steps = <<"retrieve", "compose", "generate">>
             /\ ~locals.response.raised
             /\ steps' = AnsweredSteps
             /\ in_progress = 1
       /\ in_progress' > in_progress =>
             /\ in_progress = 0
             /\ pc = "input"
       /\ in_progress' <= 1
       /\ (pc # "input" /\ pc' = "input") =>
             /\ steps \in {AnsweredSteps, FailedSteps}
             /\ in_progress' = 0]_vars

\* a second question has been read after the first was answered and recorded
C24_Witness ==
    /\ pc = "generate"
    /\ steps = <<"retrieve", "compose">>
    /\ in_progress = 1
    /\ Len(conversation_history) = 2

===========================================================================
